---- MODULE Spec2Model ----
(***************************************************************************)
(* Model of the Nomad hex strategy game: hex-math.ts, pathfinder.ts,       *)
(* game-state.ts, actions/attack.ts, actions/settle.ts, ai.ts and the      *)
(* event handlers of main.ts.                                              *)
(*                                                                         *)
(* A hex is the tuple <<col, row>> (odd-r offset coordinates).  The map    *)
(* keys `${col},${row}` of pathfinder.ts are injective on integer pairs    *)
(* and are modelled by the hex itself.                                     *)
(***************************************************************************)
EXTENDS Integers, Sequences, FiniteSets, TLC

\* ------------------------------------------------------------------ bounds

\* Grid extent of the pathfinder harness (the isValidHexFn argument).
PathCols == 5
PathRows == 5
\* Largest movementRemaining of the harness unit.
MaxMove == 3
\* Largest number of hexes of the harness board that are not free plains.
MaxSpecial == 2

\* ------------------------------------------------------------- hex-math.ts

Abs(x) == IF x < 0 THEN -x ELSE x

\* row & 1 on a two's complement integer: 1 for every odd row, negative too.
Parity(row) == row % 2

oddrToCube(col, row) ==
    LET q == col - ((row - Parity(row)) \div 2)
        r == row
    IN  [q |-> q, r |-> r, s |-> -q - r]

\* Mutation of getDistance: the q difference keeps its sign.
getDistanceSigned(hexA, hexB) ==
    LET ac == oddrToCube(hexA[1], hexA[2])
        bc == oddrToCube(hexB[1], hexB[2])
    IN  ((ac.q - bc.q) + Abs(ac.r - bc.r) + Abs(ac.s - bc.s)) \div 2

getDistance(hexA, hexB) ==
    LET ac == oddrToCube(hexA[1], hexA[2])
        bc == oddrToCube(hexB[1], hexB[2])
    IN  (Abs(ac.q - bc.q) + Abs(ac.r - bc.r) + Abs(ac.s - bc.s)) \div 2

OddOffsets  == << <<1, 0>>, <<1, -1>>, <<0, -1>>, <<-1, 0>>, <<0, 1>>, <<1, 1>> >>
EvenOffsets == << <<1, 0>>, <<0, -1>>, <<-1, -1>>, <<-1, 0>>, <<-1, 1>>, <<0, 1>> >>

\* Mutation of getNeighbors: the offsets of the even rows on every row.
getNeighborsEven(col, row) ==
    [i \in 1..6 |-> <<col + EvenOffsets[i][1], row + EvenOffsets[i][2]>>]

getNeighbors(col, row) ==
    LET offsets == IF Parity(row) = 1 THEN OddOffsets ELSE EvenOffsets
    IN  [i \in 1..6 |-> <<col + offsets[i][1], row + offsets[i][2]>>]

\* --- the numbers of the pixel conversions
\*
\* hexToPixel and pixelToHex compute with Math.sqrt(3).  A number is kept
\* exactly as (one + root * sqrt(3)) / den with integers one, root and
\* den > 0, in lowest terms.

RECURSIVE Gcd(_, _)
Gcd(a, b) == IF b = 0 THEN a ELSE Gcd(b, a % b)

Num(one, root, den) ==
    LET g == Gcd(Gcd(Abs(one), Abs(root)), den)
    IN  [one |-> one \div g, root |-> root \div g, den |-> den \div g]

Rat(n, d) == Num(n, 0, d)
Sqrt3 == Num(0, 1, 1)

Add(a, b) == Num(a.one * b.den + b.one * a.den, a.root * b.den + b.root * a.den,
                 a.den * b.den)
Sub(a, b) == Num(a.one * b.den - b.one * a.den, a.root * b.den - b.root * a.den,
                 a.den * b.den)
Mul(a, b) == Num(a.one * b.one + 3 * a.root * b.root,
                 a.one * b.root + a.root * b.one, a.den * b.den)

\* a > 0, decided on the integers: one + root * sqrt(3) > 0.
Positive(a) ==
    IF a.one >= 0 /\ a.root >= 0 THEN a.one > 0 \/ a.root > 0
    ELSE IF a.one <= 0 /\ a.root <= 0 THEN FALSE
    ELSE IF a.one > 0 THEN a.one * a.one > 3 * a.root * a.root
    ELSE 3 * a.root * a.root > a.one * a.one

Greater(a, b) == Positive(Sub(a, b))

\* Math.abs
MathAbs(a) == IF Positive(a) THEN a ELSE Sub(Rat(0, 1), a)

\* Math.floor: the integer k with k <= a < k + 1 (1 < sqrt(3) < 2 bounds it).
MathFloor(a) ==
    CHOOSE k \in ((a.one - 2 * Abs(a.root)) \div a.den) - 1
                 ..((a.one + 2 * Abs(a.root)) \div a.den) + 1 :
        /\ ~Greater(Rat(k, 1), a)
        /\ Greater(Rat(k + 1, 1), a)

\* Math.round: the nearest integer, a half rounded up.
MathRound(a) == MathFloor(Add(a, Rat(1, 2)))

HEX_SIZE == 35

\* hexToPixel(col, row)
hexToPixel(col, row) ==
    LET x == Mul(Mul(Rat(HEX_SIZE, 1), Sqrt3),
                 Add(Rat(col, 1), Mul(Rat(1, 2), Rat(Parity(row), 1))))
        y == Mul(Rat(HEX_SIZE * 3, 2), Rat(row, 1))
    IN  [x |-> Add(x, Rat(HEX_SIZE, 1)), y |-> Add(y, Rat(HEX_SIZE, 1))]

\* cubeRound(cube): q, r and s are numbers, the result is integers.
cubeRound(cube) ==
    LET rx == MathRound(cube.q)
        ry == MathRound(cube.r)
        rz == MathRound(cube.s)
        x_diff == MathAbs(Sub(Rat(rx, 1), cube.q))
        y_diff == MathAbs(Sub(Rat(ry, 1), cube.r))
        z_diff == MathAbs(Sub(Rat(rz, 1), cube.s))
    IN  IF Greater(x_diff, y_diff) /\ Greater(x_diff, z_diff)
        THEN [q |-> -ry - rz, r |-> ry, s |-> rz]
        ELSE IF Greater(y_diff, z_diff)
        THEN [q |-> rx, r |-> -rx - rz, s |-> rz]
        ELSE [q |-> rx, r |-> ry, s |-> -rx - ry]

\* Mutation of cubeToOddr: the offset of the even-r layout.
cubeToEvenr(cube) ==
    <<cube.q + ((cube.r + Parity(cube.r)) \div 2), cube.r>>

\* cubeToOddr(cube)
cubeToOddr(cube) ==
    <<cube.q + ((cube.r - Parity(cube.r)) \div 2), cube.r>>

\* The fractional cube coordinates of pixelToHex before the rounding.
\* Floating point gives each of q, r and s with a rounding error: err.q,
\* err.r and err.s are added where the code has the value.
PixelToCube(pixel, err) ==
    LET x == Sub(pixel.x, Rat(HEX_SIZE, 1))
        y == Sub(pixel.y, Rat(HEX_SIZE, 1))
        q == Add(Mul(Sub(Mul(Mul(Sqrt3, Rat(1, 3)), x), Mul(Rat(1, 3), y)),
                     Rat(1, HEX_SIZE)), err.q)
        r == Add(Mul(Mul(Rat(2, 3), y), Rat(1, HEX_SIZE)), err.r)
    IN  [q |-> q, r |-> r, s |-> Add(Sub(Sub(Rat(0, 1), q), r), err.s)]

\* pixelToHex(x, y)
pixelToHex(pixel, err) == cubeToOddr(cubeRound(PixelToCube(pixel, err)))

\* ------------------------------------------------------------ constants.ts

\* JavaScript's Infinity, the movement cost of impassable terrain.
Infinity == 999

TerrainTypes == {"plains", "forest", "mountain", "ocean"}

\* TERRAIN_CONFIG[terrain].movementCost (desert and hills cost 2 like forest).
TerrainMovementCost(terrain) ==
    CASE terrain = "plains"   -> 1
      [] terrain = "forest"   -> 2
      [] terrain = "mountain" -> Infinity
      [] terrain = "ocean"    -> 1

\* ----------------------------------------------------------- pathfinder.ts

\* A board is a function from its hexes to terrain; a hex outside its
\* domain is board[row]?.[col] === undefined.
NoTile == "undefined"
TileAt(board, hex) == IF hex \in DOMAIN board THEN board[hex] ELSE NoTile

isPassableTile(tile, isNaval) ==
    IF tile = NoTile THEN FALSE
    ELSE IF TerrainMovementCost(tile) = Infinity THEN FALSE
    ELSE IF tile = "ocean" THEN isNaval
    ELSE ~isNaval

\* The cache is null or a map; a map is a function from the hexes it holds.
NoCache == [present |-> FALSE, costs |-> <<>>]
CacheOf(reached) == [present |-> TRUE, costs |-> reached]

\* Mutation of getMovementCost: a hex that is not cached costs nothing.
getMovementCostNoFallback(cache, hex) ==
    IF cache.present /\ hex \in DOMAIN cache.costs THEN cache.costs[hex] ELSE 0

\* cachedMoveCosts?.get(key) ?? 1
getMovementCost(cache, hex) ==
    IF cache.present /\ hex \in DOMAIN cache.costs THEN cache.costs[hex] ELSE 1

MapSet(m, k, v) == [x \in DOMAIN m \cup {k} |-> IF x = k THEN v ELSE m[x]]

\* Mutation of the admission test: a reached hex is never improved.
AdmitsFirstOnly(newCost, movementRemaining, reached, key) ==
    /\ newCost <= movementRemaining
    /\ key \notin DOMAIN reached

\* Mutation of the admission test: the whole allowance may not be spent.
AdmitsStrict(newCost, movementRemaining, reached, key) ==
    /\ newCost < movementRemaining
    /\ (key \notin DOMAIN reached \/ newCost < reached[key])

\* The admission test of the inner loop (pathfinder.ts line 125).
Admits(newCost, movementRemaining, reached, key) ==
    /\ newCost <= movementRemaining
    /\ (key \notin DOMAIN reached \/ newCost < reached[key])

\* The for-loop over the six neighbours of `current`, from neighbour i on.
\* st = [frontier, reached, results].
RECURSIVE ExpandNeighbors(_, _, _, _, _, _, _, _)
ExpandNeighbors(st, current, i, movementRemaining, isNaval, board, occupied, valid) ==
    IF i > 6 THEN st
    ELSE
        LET next == getNeighbors(current.hex[1], current.hex[2])[i]
            tile == TileAt(board, next)
            skip == \/ next \notin valid
                    \/ next \in occupied
                    \/ ~isPassableTile(tile, isNaval)
            newCost == current.cost + TerrainMovementCost(tile)
            st2 == IF ~skip /\ Admits(newCost, movementRemaining, st.reached, next)
                   THEN [frontier |-> Append(st.frontier, [hex |-> next, cost |-> newCost]),
                         reached  |-> MapSet(st.reached, next, newCost),
                         results  |-> Append(st.results, next)]
                   ELSE st
        IN  ExpandNeighbors(st2, current, i + 1, movementRemaining, isNaval,
                            board, occupied, valid)

\* while (frontier.length > 0) { current = frontier.shift(); ... }
RECURSIVE SearchLoop(_, _, _, _, _, _)
SearchLoop(st, movementRemaining, isNaval, board, occupied, valid) ==
    IF Len(st.frontier) = 0 THEN st
    ELSE
        LET current == Head(st.frontier)
            popped  == [st EXCEPT !.frontier = Tail(st.frontier)]
            st2 == IF current.cost < movementRemaining
                   THEN ExpandNeighbors(popped, current, 1, movementRemaining,
                                        isNaval, board, occupied, valid)
                   ELSE popped
        IN  SearchLoop(st2, movementRemaining, isNaval, board, occupied, valid)

\* getReachableHexes(unit, board, getUnitAtFn, isValidHexFn): the returned
\* list (results) and the map stored in cachedMoveCosts (reached).
\* `occupied` is the set of hexes where getUnitAtFn finds a unit, `valid`
\* the set of hexes isValidHexFn accepts.
getReachableHexes(start, movementRemaining, isNaval, board, occupied, valid) ==
    LET st0 == [frontier |-> << [hex |-> start, cost |-> 0] >>,
                reached  |-> (start :> 0),
                results  |-> <<>>]
        fin == SearchLoop(st0, movementRemaining, isNaval, board, occupied, valid)
    IN  [results |-> fin.results, reached |-> fin.reached]

\* findBestMoveTowards(reachableHexes, target); null is modelled by NoHex.
NoHex == <<-1, -1>>

\* Mutation of the loop of findBestMoveTowards: the last of equally near
\* hexes wins.
RECURSIVE BestLoopLast(_, _, _, _, _)
BestLoopLast(reachableHexes, target, i, bestHex, bestDist) ==
    IF i > Len(reachableHexes) THEN bestHex
    ELSE
        LET hex == reachableHexes[i]
            d   == getDistance(hex, target)
        IN  IF d <= bestDist
            THEN BestLoopLast(reachableHexes, target, i + 1, hex, d)
            ELSE BestLoopLast(reachableHexes, target, i + 1, bestHex, bestDist)

RECURSIVE BestLoop(_, _, _, _, _)
BestLoop(reachableHexes, target, i, bestHex, bestDist) ==
    IF i > Len(reachableHexes) THEN bestHex
    ELSE
        LET hex == reachableHexes[i]
            d   == getDistance(hex, target)
        IN  IF d < bestDist
            THEN BestLoop(reachableHexes, target, i + 1, hex, d)
            ELSE BestLoop(reachableHexes, target, i + 1, bestHex, bestDist)

findBestMoveTowards(reachableHexes, target) ==
    BestLoop(reachableHexes, target, 1, NoHex, Infinity)

\* ------------------------------------------------------------ bounds (game)

\* Board extent (BOARD_COLS x BOARD_ROWS is 100 x 80 in constants.ts; the
\* model plays on a small board).
BOARD_COLS == 4
BOARD_ROWS == 3
\* Number of games (initGameState calls) the model follows.
MaxGames == 2
\* Number of AI sequences that may be in flight together.
MaxProcs == 2
\* Number of re-initialisation timers that may be pending together.
MaxPending == 1
\* Number of end-turn clicks the model follows.
MaxTurns == 2
\* Number of selection clicks in the friendly phase the model follows.
MaxClicks == 4

VARIABLES
    turn,            \* gameState.turn
    units,           \* gameState.units: sequence of unit objects (heap ids)
    heap,            \* the unit objects, by id
    structures,      \* gameState.structures
    board,           \* gameState.board: terrain of every tile
    visible,         \* hexes whose tile.visible is true
    explored,        \* hexes whose tile.explored is true
    selectedUnit,    \* gameState.selectedUnit (NoUnit: null)
    validMoves,      \* gameState.validMoves
    validTargets,    \* gameState.validTargets
    cachedMoveCosts, \* pathfinder.ts cachedMoveCosts
    pendingInit,     \* setTimeout callbacks of handleWinCheck not yet run
    gen,             \* games initialised so far
    clicksLeft,      \* selection clicks the model still follows
    turnsLeft,       \* end-turn clicks the model still follows
    procs,           \* executeAITurn calls suspended in a delay
    probe            \* inputs and outputs of the pure-function harness

vars == <<turn, units, heap, structures, board, visible, explored, selectedUnit,
          validMoves, validTargets, cachedMoveCosts, pendingInit, gen, clicksLeft,
          turnsLeft, procs, probe>>

NoUnit == 0

Grid == {<<c, r>> : c \in 0..(BOARD_COLS - 1), r \in 0..(BOARD_ROWS - 1)}

\* ------------------------------------------------------------------ unit.ts

UnitConfig(type) ==
    CASE type = "Warrior" -> [hp |-> 12, moveRange |-> 2, range |-> 1, damage |-> 4, sightRange |-> 3, isNaval |-> FALSE]
      [] type = "Scout"   -> [hp |-> 6,  moveRange |-> 4, range |-> 1, damage |-> 2, sightRange |-> 5, isNaval |-> FALSE]
      [] type = "Settler" -> [hp |-> 5,  moveRange |-> 2, range |-> 0, damage |-> 0, sightRange |-> 2, isNaval |-> FALSE]
      [] type = "Slinger" -> [hp |-> 6,  moveRange |-> 2, range |-> 2, damage |-> 2, sightRange |-> 4, isNaval |-> FALSE]

createUnit(type, owner, hex) ==
    LET config == UnitConfig(type)
    IN  [type |-> type, owner |-> owner, pos |-> hex,
         hp |-> config.hp, moveRange |-> config.moveRange, range |-> config.range,
         damage |-> config.damage, movementRemaining |-> config.moveRange,
         hasActed |-> FALSE, sightRange |-> config.sightRange,
         isNaval |-> config.isNaval]

\* ------------------------------------------------------------ game-state.ts

STRUCTURE_SIGHT_RANGE == 3

\* The whole mutable game state as one record, so that the functions of
\* game-state.ts compose as they do in the code.
G == [turn |-> turn, units |-> units, heap |-> heap, structures |-> structures,
      board |-> board, visible |-> visible, explored |-> explored,
      selectedUnit |-> selectedUnit, validMoves |-> validMoves,
      validTargets |-> validTargets, cache |-> cachedMoveCosts,
      pendingInit |-> pendingInit, gen |-> gen]

SeqToSet(s) == {s[i] : i \in 1..Len(s)}

RECURSIVE FilterSeq(_, _)
\* Array.prototype.filter with the kept elements given as a set.
FilterSeq(s, keep) ==
    IF s = <<>> THEN <<>>
    ELSE IF Head(s) \in keep THEN <<Head(s)>> \o FilterSeq(Tail(s), keep)
    ELSE FilterSeq(Tail(s), keep)

\* gameState.units.find(u => u.col === col && u.row === row)
getUnitAt(g, hex) ==
    LET hits == {i \in 1..Len(g.units) : g.heap[g.units[i]].pos = hex}
    IN  IF hits = {} THEN NoUnit
        ELSE g.units[CHOOSE i \in hits : \A j \in hits : i <= j]

isValidHex(hex) ==
    hex[1] >= 0 /\ hex[1] < BOARD_COLS /\ hex[2] >= 0 /\ hex[2] < BOARD_ROWS

\* Mutation of the occupancy test: only friendly units block a hex.
OccupiedByFriends(g) ==
    {g.heap[g.units[i]].pos : i \in {j \in 1..Len(g.units) :
                                        g.heap[g.units[j]].owner = "player"}}

Occupied(g) == {g.heap[g.units[i]].pos : i \in 1..Len(g.units)}

\* getReachableHexes(unit) of game-state.ts: the pathfinder on the game's
\* board, getUnitAt and isValidHex.
ReachableOf(g, u) ==
    getReachableHexes(g.heap[u].pos, g.heap[u].movementRemaining, g.heap[u].isNaval,
                      g.board, Occupied(g), {h \in Grid : isValidHex(h)})

\* The hexes of the square col-range..col+range x row-range..row+range in
\* the order of the two nested loops (rows outside, columns inside).
SquareScan(hex, range) ==
    LET w == 2 * range + 1
    IN  [k \in 1..(w * w) |->
            <<hex[1] - range + ((k - 1) % w), hex[2] - range + ((k - 1) \div w)>>]

IsTarget(g, u, hex) ==
    /\ getUnitAt(g, hex) # NoUnit
    /\ g.heap[getUnitAt(g, hex)].owner # g.heap[u].owner

\* Mutation of getAttackableTargets: only the neighbours are looked at,
\* whatever the range.
getAttackableTargetsNear(g, u) ==
    LET unit == g.heap[u]
        near == getNeighbors(unit.pos[1], unit.pos[2])
    IN  IF unit.range = 0 THEN <<>>
        ELSE FilterSeq(near, {h \in SeqToSet(near) : IsTarget(g, u, h)})

getAttackableTargets(g, u) ==
    LET unit == g.heap[u]
        near == getNeighbors(unit.pos[1], unit.pos[2])
        scan == SquareScan(unit.pos, unit.range)
    IN  IF unit.range = 0 THEN <<>>
        ELSE IF unit.range = 1
        THEN FilterSeq(near, {h \in SeqToSet(near) : IsTarget(g, u, h)})
        ELSE FilterSeq(scan, {h \in SeqToSet(scan) :
                                /\ isValidHex(h)
                                /\ h # unit.pos
                                /\ getDistance(unit.pos, h) <= unit.range
                                /\ IsTarget(g, u, h)})

\* revealAroundPosition: the tiles the scan of the bounding square marks.
revealAroundPosition(brd, center, sightRange) ==
    {h \in SeqToSet(SquareScan(center, sightRange + 1)) :
        /\ isValidHex(h)
        /\ getDistance(center, h) <= sightRange
        /\ h \in DOMAIN brd}

\* The tiles updateVisibility finds in sight of the player's units and
\* structures.
SeenBy(g) ==
    UNION {revealAroundPosition(g.board, g.heap[g.units[i]].pos,
                                g.heap[g.units[i]].sightRange) :
             i \in {j \in 1..Len(g.units) : g.heap[g.units[j]].owner = "player"}}
    \cup UNION {revealAroundPosition(g.board, g.structures[i].pos,
                                     STRUCTURE_SIGHT_RANGE) :
                  i \in {j \in 1..Len(g.structures) : g.structures[j].owner = "player"}}

\* Mutation of updateVisibility: the tiles in sight are not marked explored.
updateVisibilityUnmarked(g) == [g EXCEPT !.visible = SeenBy(g)]

\* Mutation of updateVisibility: explored is reset along with visible.
updateVisibilityForgets(g) ==
    [g EXCEPT !.visible = SeenBy(g), !.explored = SeenBy(g)]

\* Mutation of updateVisibility: the units and structures of every side
\* give sight.
updateVisibilityAllSides(g) ==
    LET seen == UNION {revealAroundPosition(g.board, g.heap[g.units[i]].pos,
                                            g.heap[g.units[i]].sightRange) :
                         i \in 1..Len(g.units)}
                \cup UNION {revealAroundPosition(g.board, g.structures[i].pos,
                                                 STRUCTURE_SIGHT_RANGE) :
                              i \in 1..Len(g.structures)}
    IN  [g EXCEPT !.visible = seen, !.explored = g.explored \cup seen]

\* Mutation of updateVisibility: no reset; the pass floods one hex further
\* from the tiles that were visible.
updateVisibilitySpreads(g) ==
    LET spread == {h \in DOMAIN g.board :
                      \E k \in g.visible : getDistance(h, k) <= 1}
    IN  [g EXCEPT !.visible = SeenBy(g) \cup spread,
                  !.explored = g.explored \cup SeenBy(g) \cup spread]

updateVisibility(g) ==
    LET fromUnits == UNION {revealAroundPosition(g.board, g.heap[g.units[i]].pos,
                                                 g.heap[g.units[i]].sightRange) :
                              i \in {j \in 1..Len(g.units) :
                                        g.heap[g.units[j]].owner = "player"}}
        fromStructures == UNION {revealAroundPosition(g.board, g.structures[i].pos,
                                                      STRUCTURE_SIGHT_RANGE) :
                                   i \in {j \in 1..Len(g.structures) :
                                             g.structures[j].owner = "player"}}
        seen == fromUnits \cup fromStructures
    IN  [g EXCEPT !.visible = seen, !.explored = g.explored \cup seen]

\* Mutation of applyMovement: every move costs 1.
applyMovementUnitCost(g, u, hex) ==
    [g EXCEPT !.heap[u].pos = hex,
              !.heap[u].movementRemaining = @ - 1]

\* applyMovement of pathfinder.ts.
applyMovement(g, u, hex) ==
    LET cost == getMovementCost(g.cache, hex)
    IN  [g EXCEPT !.heap[u].pos = hex,
                  !.heap[u].movementRemaining = @ - cost]

ClearSelection(g) ==
    [g EXCEPT !.selectedUnit = NoUnit, !.validMoves = <<>>, !.validTargets = <<>>]

\* gameState.validMoves = getReachableHexes(unit): the wrapper's call fills
\* the cost cache as well.
SetValidMoves(g, q) ==
    [g EXCEPT !.validMoves = q.results, !.cache = CacheOf(q.reached)]

\* The steps of moveUnit after applyMovement, each on the state the step
\* before it left.
RevealAfterMove(g, u) ==
    IF g.heap[u].owner = "player" THEN updateVisibility(g) ELSE g

RefreshValidMoves(g, u) ==
    IF g.heap[u].movementRemaining > 0
    THEN SetValidMoves(g, ReachableOf(g, u))
    ELSE [g EXCEPT !.validMoves = <<>>]

RefreshValidTargets(g, u) ==
    IF ~g.heap[u].hasActed
    THEN [g EXCEPT !.validTargets = getAttackableTargets(g, u)]
    ELSE [g EXCEPT !.validTargets = <<>>]

DeselectIfExhausted(g, u) ==
    IF g.heap[u].movementRemaining <= 0 /\ g.heap[u].hasActed
    THEN ClearSelection(g)
    ELSE g

moveUnit(g, u, hex) ==
    DeselectIfExhausted(
        RefreshValidTargets(
            RefreshValidMoves(
                RevealAfterMove(applyMovement(g, u, hex), u), u), u), u)

\* gameState.units = gameState.units.filter(u => u !== unit)
RemoveUnit(g, u) ==
    [g EXCEPT !.units = FilterSeq(g.units, SeqToSet(g.units) \ {u})]

\* Mutation of the removal: a defender at exactly zero health stays.
RemoveIfNegative(g, defender) ==
    IF g.heap[defender].hp < 0 THEN RemoveUnit(g, defender) ELSE g

RemoveIfDead(g, defender) ==
    IF g.heap[defender].hp <= 0 THEN RemoveUnit(g, defender) ELSE g

\* Mutation of attackUnit: the defender strikes back.
attackUnitCounter(g, attacker, defender) ==
    ClearSelection(
        RemoveIfDead([g EXCEPT !.heap[defender].hp = @ - g.heap[attacker].damage,
                               !.heap[attacker].hp = @ - g.heap[defender].damage,
                               !.heap[attacker].hasActed = TRUE],
                     defender))

\* Mutation of attackUnit: the selection survives the attack.
attackUnitKeepsSelection(g, attacker, defender) ==
    RemoveIfDead([g EXCEPT !.heap[defender].hp = @ - g.heap[attacker].damage,
                           !.heap[attacker].hasActed = TRUE],
                 defender)

\* actions/attack.ts
attackUnit(g, attacker, defender) ==
    ClearSelection(
        RemoveIfDead([g EXCEPT !.heap[defender].hp = @ - g.heap[attacker].damage,
                               !.heap[attacker].hasActed = TRUE],
                     defender))

\* "victory", "defeat" or "none" (null).
checkWinCondition(g) ==
    LET enemies == {i \in 1..Len(g.units) : g.heap[g.units[i]].owner # "player"}
        players == {i \in 1..Len(g.units) : g.heap[g.units[i]].owner = "player"}
    IN  IF enemies = {} THEN "victory"
        ELSE IF players = {} THEN "defeat"
        ELSE "none"

RECURSIVE NearestLoop(_, _, _, _, _)
NearestLoop(g, enemy, i, nearest, minDist) ==
    IF i > Len(g.units) THEN nearest
    ELSE
        LET p == g.units[i]
            d == getDistance(g.heap[enemy].pos, g.heap[p].pos)
        IN  IF g.heap[p].owner = "player" /\ d < minDist
            THEN NearestLoop(g, enemy, i + 1, p, d)
            ELSE NearestLoop(g, enemy, i + 1, nearest, minDist)

findNearestPlayer(g, enemy) == NearestLoop(g, enemy, 1, NoUnit, Infinity)

\* Mutation of canSettle: a hex that holds a structure may be settled again.
canSettleOnStructure(g, u) ==
    LET unit == g.heap[u]
        tile == TileAt(g.board, unit.pos)
    IN  /\ unit.type = "Settler"
        /\ ~unit.hasActed
        /\ tile # NoTile
        /\ tile # "ocean" /\ tile # "mountain"

\* actions/settle.ts
canSettle(g, u) ==
    LET unit == g.heap[u]
        tile == TileAt(g.board, unit.pos)
    IN  /\ unit.type = "Settler"
        /\ ~unit.hasActed
        /\ tile # NoTile
        /\ tile # "ocean" /\ tile # "mountain"
        /\ \A i \in 1..Len(g.structures) : g.structures[i].pos # unit.pos

FoundCity(g, settler) ==
    [g EXCEPT !.structures =
        Append(@, [type |-> "City", owner |-> g.heap[settler].owner,
                   pos |-> g.heap[settler].pos])]

\* Mutation of settleCity: visibility is not recomputed.
settleCityUnseen(g, settler) ==
    IF ~canSettle(g, settler) THEN g
    ELSE ClearSelection(RemoveUnit(FoundCity(g, settler), settler))

settleCity(g, settler) ==
    IF ~canSettle(g, settler) THEN g
    ELSE updateVisibility(ClearSelection(RemoveUnit(FoundCity(g, settler), settler)))

\* initGameState: the board generateRandomBoard returns (one board with
\* every kind of terrain near the spawn) and the starting roster.  Of the
\* roster the model keeps the player's settler and warrior and the warriors
\* of two hostile sides; the hostile settlers (range 0, damage 0, never
\* founding a city) are left out.
Boards ==
    {[h \in Grid |-> CASE h = <<1, 1>> -> "forest"
                       [] h = <<2, 1>> -> "mountain"
                       [] h = <<2, 0>> -> "ocean"
                       [] OTHER -> "plains"]}

Roster ==
    << [type |-> "Settler", owner |-> "player", pos |-> <<0, 0>>],
       [type |-> "Warrior", owner |-> "player", pos |-> <<1, 0>>],
       [type |-> "Warrior", owner |-> "enemy1", pos |-> <<BOARD_COLS - 1, BOARD_ROWS - 1>>],
       [type |-> "Warrior", owner |-> "enemy2", pos |-> <<0, BOARD_ROWS - 1>>] >>

RosterSize == Len(Roster)

\* The unit objects a game creates are new objects: ids of generation k.
UnitId(k, i) == (k - 1) * RosterSize + i

\* Objects no variable refers to any more are dropped from the heap.
Collect(g, ps) ==
    LET live == SeqToSet(g.units) \cup {g.selectedUnit}
                \cup UNION {SeqToSet(ps[i].enemies) : i \in 1..Len(ps)}
    IN  [g EXCEPT !.heap = [u \in (DOMAIN g.heap) \cap live |-> g.heap[u]]]

initGameState(g, brd) ==
    LET k == g.gen + 1
        fresh == [i \in 1..RosterSize |-> UnitId(k, i)]
        objs == [u \in DOMAIN g.heap \cup SeqToSet(fresh) |->
                    IF u \in SeqToSet(fresh)
                    THEN LET r == Roster[u - UnitId(k, 0)]
                         IN  createUnit(r.type, r.owner, r.pos)
                    ELSE g.heap[u]]
        g1 == [g EXCEPT !.units = fresh, !.heap = objs, !.structures = <<>>,
                        !.board = brd, !.visible = {}, !.explored = {},
                        !.turn = "player", !.selectedUnit = NoUnit,
                        !.validMoves = <<>>, !.validTargets = <<>>,
                        !.gen = k]
    IN  updateVisibility(g1)

\* ----------------------------------------------------------------- main.ts

\* handleWinCheck: a victory or a defeat schedules fullInitGame (setTimeout).
handleWinCheck(g) ==
    IF checkWinCondition(g) # "none"
    THEN [g EXCEPT !.pendingInit = IF @ < MaxPending THEN @ + 1 ELSE @]
    ELSE g

\* Branch 1 of handleSelection: a friendly unit is selected.
SelectUnit(g, u) ==
    LET canMove == g.heap[u].movementRemaining > 0
        canAct == ~g.heap[u].hasActed
        moves == IF canMove THEN SetValidMoves(g, ReachableOf(g, u))
                 ELSE [g EXCEPT !.validMoves = <<>>]
    IN  [moves EXCEPT !.selectedUnit = u,
                      !.validTargets = IF canAct THEN getAttackableTargets(g, u) ELSE <<>>]

\* Branch 2 of handleSelection: move or attack with the selected unit, or
\* deselect.
ActWithSelected(g, hex, clicked) ==
    IF hex \in SeqToSet(g.validMoves)
    THEN moveUnit(g, g.selectedUnit, hex)
    ELSE IF hex \in SeqToSet(g.validTargets)
    THEN IF clicked # NoUnit
         THEN handleWinCheck(attackUnit(g, g.selectedUnit, clicked))
         ELSE g
    ELSE ClearSelection(g)

HandleClicked(g, hex, clicked) ==
    IF clicked # NoUnit /\ g.heap[clicked].owner = "player"
    THEN SelectUnit(g, clicked)
    ELSE IF g.selectedUnit # NoUnit
    THEN ActWithSelected(g, hex, clicked)
    ELSE g

\* handleSelection(col, row)
handleSelection(g, hex) ==
    IF g.turn # "player" THEN g ELSE HandleClicked(g, hex, getUnitAt(g, hex))

\* ------------------------------------------------------------------- ai.ts

\* A suspended executeAITurn: its enemies array, the index of the unit it
\* is processing, the delay it awaits and targets[0] of step 3.
Proc(enemies, idx, pc, targetHex) ==
    [enemies |-> enemies, idx |-> idx, pc |-> pc, targetHex |-> targetHex]

\* The forEach over the player's units at the end of executeAITurn.
ResetPlayerUnits(g) ==
    [g EXCEPT !.heap = [u \in DOMAIN g.heap |->
        IF u \in SeqToSet(g.units) /\ g.heap[u].owner = "player"
        THEN [g.heap[u] EXCEPT !.movementRemaining = g.heap[u].moveRange,
                               !.hasActed = FALSE]
        ELSE g.heap[u]]]

\* Mutation of the end of executeAITurn: the phase is not handed back.
FinishAITurnKeepsPhase(g) == handleWinCheck(ResetPlayerUnits(g))

\* Mutation of the end of executeAITurn: the player's units are not reset.
FinishAITurnKeepsUnits(g) == handleWinCheck([g EXCEPT !.turn = "player"])

\* The end of executeAITurn (ai.ts lines 420-429).
FinishAITurn(g) ==
    handleWinCheck(ResetPlayerUnits([g EXCEPT !.turn = "player"]))

\* Mutation of the for-loop: no unit is skipped.
ContinueLoopAll(g, enemies, i) ==
    IF i > Len(enemies)
    THEN [g |-> FinishAITurn(g), done |-> TRUE, proc |-> Proc(enemies, i, "done", NoHex)]
    ELSE [g |-> [g EXCEPT !.heap[enemies[i]].movementRemaining = g.heap[enemies[i]].moveRange,
                          !.heap[enemies[i]].hasActed = FALSE],
          done |-> FALSE,
          proc |-> Proc(enemies, i, "delay600", NoHex)]

\* The for-loop from index i up to its next await: units with hp <= 0 are
\* skipped, the next unit is reset and the sequence suspends in delay(600);
\* past the last unit the turn ends.  Returns the state and the suspended
\* sequence (done: the sequence has completed).
RECURSIVE ContinueLoop(_, _, _)
ContinueLoop(g, enemies, i) ==
    IF i > Len(enemies)
    THEN [g |-> FinishAITurn(g), done |-> TRUE, proc |-> Proc(enemies, i, "done", NoHex)]
    ELSE IF g.heap[enemies[i]].hp <= 0
    THEN ContinueLoop(g, enemies, i + 1)
    ELSE [g |-> [g EXCEPT !.heap[enemies[i]].movementRemaining = g.heap[enemies[i]].moveRange,
                          !.heap[enemies[i]].hasActed = FALSE],
          done |-> FALSE,
          proc |-> Proc(enemies, i, "delay600", NoHex)]

\* const enemies = gameState.units.filter(u => u.owner !== 'player')
EnemiesOf(g) ==
    FilterSeq(g.units, {u \in SeqToSet(g.units) : g.heap[u].owner # "player"})

EnterLoop(g) == ContinueLoop(g, EnemiesOf(g), 1)

\* Mutation of the start of executeAITurn: the selection is kept.
StartAITurnKeepsSelection(g) ==
    EnterLoop(handleWinCheck([g EXCEPT !.turn = "enemy"]))

\* executeAITurn up to its first await.
StartAITurn(g) ==
    EnterLoop(handleWinCheck(ClearSelection([g EXCEPT !.turn = "enemy"])))

\* The unit a suspended sequence is processing, and the loop's `continue`.
UnitOf(p) == p.enemies[p.idx]
NextUnit(g, p) == ContinueLoop(g, p.enemies, p.idx + 1)

\* Step 3: the attack after the move, awaited with delay(300) if there is
\* a target.
AwaitAttack(g, p, targets) ==
    IF Len(targets) > 0
    THEN [g |-> g, done |-> FALSE,
          proc |-> Proc(p.enemies, p.idx, "delay300", targets[1])]
    ELSE NextUnit(g, p)

AttackAfterMove(g, p) ==
    IF ~g.heap[UnitOf(p)].hasActed
    THEN AwaitAttack(g, p, getAttackableTargets(g, UnitOf(p)))
    ELSE NextUnit(g, p)

\* Step 2: the move to bestHex, if there is one.
MoveToBest(g, p, bestHex) ==
    IF bestHex # NoHex
    THEN AttackAfterMove(handleWinCheck(moveUnit(g, UnitOf(p), bestHex)), p)
    ELSE NextUnit(g, p)

\* findBestMoveTowards(unit, target) of game-state.ts: the search fills the
\* cost cache, the nearest of its hexes is chosen.
ChooseBest(g, p, nearest, q) ==
    MoveToBest([g EXCEPT !.cache = CacheOf(q.reached)], p,
               findBestMoveTowards(q.results, g.heap[nearest].pos))

MoveTowards(g, p, nearest) ==
    IF g.heap[UnitOf(p)].movementRemaining > 0 /\ nearest # NoUnit
    THEN ChooseBest(g, p, nearest, ReachableOf(g, UnitOf(p)))
    ELSE NextUnit(g, p)

\* Mutation of step 1: the last target of the query is attacked.
AttackLast(g, p, targets) ==
    IF /\ Len(targets) > 0
       /\ ~g.heap[UnitOf(p)].hasActed
       /\ getUnitAt(g, targets[Len(targets)]) # NoUnit
    THEN NextUnit(handleWinCheck(attackUnit(g, UnitOf(p),
                                            getUnitAt(g, targets[Len(targets)]))), p)
    ELSE MoveTowards(g, p, findNearestPlayer(g, UnitOf(p)))

\* Step 1: the attack on targets[0], if there is a unit on it.
AttackFirst(g, p, targets) ==
    IF /\ Len(targets) > 0
       /\ ~g.heap[UnitOf(p)].hasActed
       /\ getUnitAt(g, targets[1]) # NoUnit
    THEN NextUnit(handleWinCheck(attackUnit(g, UnitOf(p), getUnitAt(g, targets[1]))), p)
    ELSE MoveTowards(g, p, findNearestPlayer(g, UnitOf(p)))

\* The loop body after delay(600), up to the next await.
AfterDelay600(g, p) == AttackFirst(g, p, getAttackableTargets(g, UnitOf(p)))

AttackTarget(g, p, target) ==
    IF target # NoUnit
    THEN NextUnit(handleWinCheck(attackUnit(g, UnitOf(p), target)), p)
    ELSE NextUnit(g, p)

\* Step 3 after delay(300): the attack on whatever unit stands on targets[0].
AfterDelay300(g, p) == AttackTarget(g, p, getUnitAt(g, p.targetHex))

ResumeAITurn(g, p) ==
    IF p.pc = "delay600" THEN AfterDelay600(g, p) ELSE AfterDelay300(g, p)

\* ------------------------------------------------------- the state machine

SetState(g) ==
    /\ turn' = g.turn
    /\ units' = g.units
    /\ heap' = g.heap
    /\ structures' = g.structures
    /\ board' = g.board
    /\ visible' = g.visible
    /\ explored' = g.explored
    /\ selectedUnit' = g.selectedUnit
    /\ validMoves' = g.validMoves
    /\ validTargets' = g.validTargets
    /\ cachedMoveCosts' = g.cache
    /\ pendingInit' = g.pendingInit
    /\ gen' = g.gen

\* The gameState object literal of game-state.ts and the module state of
\* pathfinder.ts, before initGameState has run.
EmptyGame ==
    [turn |-> "player", units |-> <<>>, heap |-> <<>>, structures |-> <<>>,
     board |-> <<>>, visible |-> {}, explored |-> {}, selectedUnit |-> NoUnit,
     validMoves |-> <<>>, validTargets |-> <<>>, cache |-> NoCache,
     pendingInit |-> 0, gen |-> 0]

NoProbe == [stage |-> "off"]

PlainsBoard == [h \in Grid |-> "plains"]

\* A game in progress: the units of `placed` (fresh for their side's turn
\* except for their health) on the plains board, nothing selected.
MidGame(placed) ==
    LET objs == [i \in 1..Len(placed) |->
                    [createUnit(placed[i].type, placed[i].owner, placed[i].pos)
                        EXCEPT !.hp = placed[i].hp]]
    IN  updateVisibility([EmptyGame EXCEPT !.units = [i \in 1..Len(placed) |-> i],
                                           !.heap = objs,
                                           !.board = PlainsBoard,
                                           !.gen = 1])

\* A friendly warrior next to a hostile one, a second hostile warrior
\* further away; the friendly warrior has taken two hits.
Skirmish ==
    << [type |-> "Warrior", owner |-> "player", pos |-> <<1, 1>>, hp |-> 4],
       [type |-> "Warrior", owner |-> "enemy1", pos |-> <<2, 1>>, hp |-> 4],
       [type |-> "Warrior", owner |-> "enemy2", pos |-> <<3, 2>>, hp |-> 12] >>

\* The games the model starts from: a new game on each board, and the
\* game in progress.
InitialGames ==
    {initGameState(EmptyGame, brd) : brd \in Boards} \cup {MidGame(Skirmish)}

\* The state after the first fullInitGame.
Init ==
    /\ \E g \in InitialGames :
               /\ turn = g.turn /\ units = g.units /\ heap = g.heap
              /\ structures = g.structures /\ board = g.board
              /\ visible = g.visible /\ explored = g.explored
              /\ selectedUnit = g.selectedUnit /\ validMoves = g.validMoves
              /\ validTargets = g.validTargets /\ cachedMoveCosts = g.cache
              /\ pendingInit = g.pendingInit /\ gen = g.gen
    /\ clicksLeft = MaxClicks
    /\ turnsLeft = MaxTurns
    /\ procs = <<>>
    /\ probe = NoProbe

\* onMouseDown, left button, on a hex of the board.
Click(hex) ==
    /\ turn = "player" => clicksLeft > 0
    /\ SetState(Collect(handleSelection(G, hex), procs))
    /\ clicksLeft' = IF turn = "player" THEN clicksLeft - 1 ELSE clicksLeft
    /\ UNCHANGED <<turnsLeft, procs, probe>>

\* onKeyDown, key 'b'.
onKeyDown(g) ==
    IF g.selectedUnit # NoUnit /\ canSettle(g, g.selectedUnit)
    THEN settleCity(g, g.selectedUnit)
    ELSE g

SettleKey ==
    /\ SetState(Collect(onKeyDown(G), procs))
    /\ UNCHANGED <<clicksLeft, turnsLeft, procs, probe>>

\* onEndTurnClick -> startEnemyTurn -> executeAITurn up to its first await.
Started(r, ps) ==
    [g |-> r.g, procs |-> IF r.done THEN ps ELSE Append(ps, r.proc)]

onEndTurnClick(g, ps) ==
    IF g.turn = "player" THEN Started(StartAITurn(g), ps) ELSE [g |-> g, procs |-> ps]

Commit(r) ==
    /\ SetState(Collect(r.g, r.procs))
    /\ procs' = r.procs

EndTurnClick ==
    /\ turn = "player" => (turnsLeft > 0 /\ Len(procs) < MaxProcs)
    /\ Commit(onEndTurnClick(G, procs))
    /\ turnsLeft' = IF turn = "player" THEN turnsLeft - 1 ELSE turnsLeft
    /\ UNCHANGED <<clicksLeft, probe>>

RemoveAt(s, i) == SubSeq(s, 1, i - 1) \o SubSeq(s, i + 1, Len(s))

\* The sequences in flight once sequence i has run to r.
Resumed(r, ps, i) ==
    [g |-> r.g,
     procs |-> IF r.done THEN RemoveAt(ps, i) ELSE [ps EXCEPT ![i] = r.proc]]

\* A pacing delay of sequence i expires and the sequence runs to its next
\* await or to its end.
AIResume(i) ==
    /\ i \in 1..Len(procs)
    /\ Commit(Resumed(ResumeAITurn(G, procs[i]), procs, i))
    /\ UNCHANGED <<clicksLeft, turnsLeft, probe>>

\* fullInitGame once the sprites are loaded: preloadSprites returns at
\* once, so initGameState runs before any other event or timer.
fullInitGame(g, brd) == initGameState(g, brd)

\* onResetClick
ResetClick ==
    /\ gen < MaxGames
    /\ \E brd \in Boards : SetState(Collect(fullInitGame(G, brd), procs))
    /\ UNCHANGED <<clicksLeft, turnsLeft, procs, probe>>

\* The setTimeout callback of handleWinCheck: alert, then fullInitGame.
InitTimer ==
    /\ pendingInit > 0
    /\ gen < MaxGames
    /\ \E brd \in Boards :
          SetState(Collect(fullInitGame([G EXCEPT !.pendingInit = @ - 1], brd), procs))
    /\ UNCHANGED <<clicksLeft, turnsLeft, procs, probe>>

Next ==
    \/ \E hex \in Grid : Click(hex)
    \/ SettleKey
    \/ EndTurnClick
    \/ \E i \in 1..MaxProcs : AIResume(i)
    \/ ResetClick
    \/ InitTimer

Spec == Init /\ [][Next]_vars

\* ------------------------------------------------ pathfinder.ts in isolation

PathGrid == {<<c, r>> : c \in 0..(PathCols - 1), r \in 0..(PathRows - 1)}

\* Where the harness unit stands: an interior hex of an even row and an
\* edge hex of an odd row.
PathStarts == {<<2, 2>>, <<0, 1>>}

\* The hexes that may differ from free plains.
PathSites == {h \in PathGrid : getDistance(h, <<2, 2>>) <= 2}

\* What such a hex holds: other terrain, or another unit on plains.
SpecialKinds == {"forest", "mountain", "ocean", "unit"}

RECURSIVE SubsetsUpTo(_, _)
SubsetsUpTo(S, n) ==
    IF n = 0 THEN {{}}
    ELSE LET prev == SubsetsUpTo(S, n - 1)
         IN  prev \cup {T \cup {x} : T \in prev, x \in S}

Placements(start) ==
    UNION {[S -> SpecialKinds] : S \in SubsetsUpTo(PathSites \ {start}, MaxSpecial)}

HarnessBoard(special) ==
    [h \in PathGrid |->
        IF h \in DOMAIN special /\ special[h] # "unit" THEN special[h] ELSE "plains"]

\* getUnitAtFn finds the searching unit on its own hex.
HarnessOccupied(special, start) ==
    {h \in DOMAIN special : special[h] = "unit"} \cup {start}

\* The lists and targets handed to findBestMoveTowards.
MaxLen == 3
PickHexes == {<<2, 2>>, <<3, 2>>, <<2, 1>>, <<1, 3>>, <<4, 4>>}
PickTargets == {<<2, 2>>, <<0, 0>>, <<4, 2>>}
PickLists == UNION {[1..n -> PickHexes] : n \in 0..MaxLen}

PickInputs ==
    {[stage |-> "list", list |-> l, target |-> t] : l \in PickLists, t \in PickTargets}

PathInit ==
    /\ turn = EmptyGame.turn /\ units = EmptyGame.units /\ heap = EmptyGame.heap
    /\ structures = EmptyGame.structures /\ board = EmptyGame.board
    /\ visible = EmptyGame.visible /\ explored = EmptyGame.explored
    /\ selectedUnit = EmptyGame.selectedUnit /\ validMoves = EmptyGame.validMoves
    /\ validTargets = EmptyGame.validTargets /\ cachedMoveCosts = EmptyGame.cache
    /\ pendingInit = 0 /\ gen = 0
    /\ clicksLeft = 0 /\ turnsLeft = 0 /\ procs = <<>>
    /\ \/ \E s \in PathStarts, m \in 0..MaxMove, n \in BOOLEAN :
             \E p \in Placements(s) :
                 probe = [stage |-> "input", start |-> s, movementRemaining |-> m,
                          isNaval |-> n, special |-> p]
       \/ probe \in PickInputs

\* A call of getReachableHexes: the list it returns, the map it caches.
Search ==
    /\ probe.stage = "input"
    /\ LET q == getReachableHexes(probe.start, probe.movementRemaining, probe.isNaval,
                                  HarnessBoard(probe.special),
                                  HarnessOccupied(probe.special, probe.start),
                                  PathGrid)
       IN  /\ probe' = [probe EXCEPT !.stage = "searched"] @@ [results |-> q.results]
           /\ cachedMoveCosts' = CacheOf(q.reached)
    /\ UNCHANGED <<turn, units, heap, structures, board, visible, explored,
                   selectedUnit, validMoves, validTargets, pendingInit, gen,
                   clicksLeft, turnsLeft, procs>>

\* A call of findBestMoveTowards.
Pick ==
    /\ probe.stage = "list"
    /\ probe' = [probe EXCEPT !.stage = "picked"]
                    @@ [best |-> findBestMoveTowards(probe.list, probe.target)]
    /\ UNCHANGED <<turn, units, heap, structures, board, visible, explored,
                   selectedUnit, validMoves, validTargets, cachedMoveCosts,
                   pendingInit, gen, clicksLeft, turnsLeft, procs>>

PathNext == Search \/ Pick

PathSpec == PathInit /\ [][PathNext]_vars

\* The program without the reset button: every other handler and timer.
NextPlay ==
    \/ \E hex \in Grid : Click(hex)
    \/ SettleKey
    \/ EndTurnClick
    \/ \E i \in 1..MaxProcs : AIResume(i)
    \/ InitTimer

PlaySpec == Init /\ [][NextPlay]_vars

\* The pacing delays are timers, and each one expires: WF_vars(AIResume(i))
\* with ENABLED <<AIResume(i)>>_vars written out.  AIResume(i) can take a
\* step exactly when sequence i exists, and its step always changes procs
\* (the sequence moves to another await or returns).
DelayExpires(i) ==
    <>[](i \in 1..Len(procs)) => []<><<AIResume(i)>>_vars

FairSpec == Spec /\ \A i \in 1..MaxProcs : DelayExpires(i)

\* ------------------------------------------ the queries in isolation

\* The game state and the cost cache are g.
StateIs(g) ==
    /\ turn = g.turn /\ units = g.units /\ heap = g.heap
    /\ structures = g.structures /\ board = g.board
    /\ visible = g.visible /\ explored = g.explored
    /\ selectedUnit = g.selectedUnit /\ validMoves = g.validMoves
    /\ validTargets = g.validTargets /\ cachedMoveCosts = g.cache
    /\ pendingInit = g.pendingInit /\ gen = g.gen

\* The hexes whose cost is looked up: the harness grid and hexes off it.
LookupHexes == PathGrid \cup {<<-1, 0>>, <<PathCols, PathRows>>}

\* The cost caches a lookup may find: none (no search has run), or the map
\* of a search on a board with at most one hex that is not free plains.
LookupInit ==
    /\ StateIs(EmptyGame)
    /\ probe = [stage |-> "lookup"]

\* A search fills the cache before the lookup.
LookupSearch ==
    /\ probe.stage = "lookup"
    /\ ~cachedMoveCosts.present
    /\ \E s \in PathStarts, m \in 0..MaxMove :
          \E p \in UNION {[S -> SpecialKinds] : S \in SubsetsUpTo(PathSites \ {s}, 1)} :
              cachedMoveCosts' =
                  CacheOf(getReachableHexes(s, m, FALSE, HarnessBoard(p),
                                            HarnessOccupied(p, s), PathGrid).reached)
    /\ UNCHANGED <<turn, units, heap, structures, board, visible, explored,
                   selectedUnit, validMoves, validTargets, pendingInit, gen,
                   clicksLeft, turnsLeft, procs, probe>>

\* A call of getMovementCost(col, row).
Lookup ==
    /\ probe.stage = "lookup"
    /\ \E hex \in LookupHexes :
          probe' = [stage |-> "looked", hex |-> hex,
                    cost |-> getMovementCost(cachedMoveCosts, hex)]
    /\ UNCHANGED <<turn, units, heap, structures, board, visible, explored,
                   selectedUnit, validMoves, validTargets, cachedMoveCosts,
                   pendingInit, gen, clicksLeft, turnsLeft, procs>>

\* --- scenes: game states the queries and actions are called in

\* Most units of a scene besides its first.
MaxOthers == 2

\* Where the first unit of a scene stands: an interior hex of an odd row
\* and the corner of the board.
SceneSubjects == {<<1, 1>>, <<0, 0>>}

SceneTypes == {"Warrior", "Settler", "Slinger"}

\* The other units: a friendly and a hostile warrior a warrior's hit
\* brings to zero, a slinger of the second hostile side a hit kills.
OtherKinds ==
    {[type |-> "Warrior", owner |-> "player", hp |-> 4],
     [type |-> "Warrior", owner |-> "enemy1", hp |-> 4],
     [type |-> "Slinger", owner |-> "enemy2", hp |-> 2]}

Others(subject) ==
    UNION {[S -> OtherKinds] : S \in SubsetsUpTo(Grid \ {subject}, MaxOthers)}

\* The hexes of S in reading order (rows, then columns).
RECURSIVE HexSeq(_)
HexSeq(S) ==
    IF S = {} THEN <<>>
    ELSE LET first == CHOOSE h \in S : \A k \in S :
                          h[2] * BOARD_COLS + h[1] <= k[2] * BOARD_COLS + k[1]
         IN  <<first>> \o HexSeq(S \ {first})

\* The units of a scene: the first unit at full health, then the others.
ScenePlaced(type, owner, subject, others) ==
    << [type |-> type, owner |-> owner, pos |-> subject, hp |-> UnitConfig(type).hp] >>
    \o [i \in 1..Cardinality(DOMAIN others) |->
           LET h == HexSeq(DOMAIN others)[i]
           IN  [type |-> others[h].type, owner |-> others[h].owner, pos |-> h,
                hp |-> others[h].hp]]

\* A friendly city on the interior hex.
SceneCity == << [type |-> "City", owner |-> "player", pos |-> <<1, 1>>] >>

\* A city of a hostile side in the far corner.
HostileCity ==
    << [type |-> "City", owner |-> "enemy1",
        pos |-> <<BOARD_COLS - 1, BOARD_ROWS - 1>>] >>

\* A board on which the scene's first unit stands on mountain or on ocean,
\* as units spawned at fixed hexes of a random board may.
RoughBoard ==
    [h \in Grid |-> CASE h = <<1, 1>> -> "mountain"
                       [] h = <<0, 0>> -> "ocean"
                       [] OTHER -> "plains"]

\* The ground of a scene: a board without structures, or the plains with
\* the city.
SceneGrounds ==
    {[board |-> brd, structures |-> <<>>] : brd \in Boards \cup {PlainsBoard, RoughBoard}}
    \cup {[board |-> PlainsBoard, structures |-> SceneCity]}
    \cup {[board |-> PlainsBoard, structures |-> HostileCity]}

\* A game in progress with the units `placed`, every unit fresh for its
\* side's turn, nothing selected.
SceneGame(placed, brd, structs) ==
    LET objs == [i \in 1..Len(placed) |->
                    [createUnit(placed[i].type, placed[i].owner, placed[i].pos)
                        EXCEPT !.hp = placed[i].hp]]
    IN  updateVisibility([EmptyGame EXCEPT !.units = [i \in 1..Len(placed) |-> i],
                                           !.heap = objs,
                                           !.board = brd,
                                           !.structures = structs,
                                           !.gen = 1])

\* A scene is a game in progress, or the gameState literal: the state in
\* which the listeners are attached while the first fullInitGame still
\* awaits preloadSprites.
SceneInit ==
    /\ \/ \E type \in SceneTypes, owner \in {"player", "enemy1"},
             subject \in SceneSubjects, ground \in SceneGrounds :
             \E others \in Others(subject) :
                 StateIs(SceneGame(ScenePlaced(type, owner, subject, others),
                                   ground.board, ground.structures))
       \/ StateIs(EmptyGame)
    /\ probe = [stage |-> "scene"]

\* A click on a friendly unit of the scene selects it.
SceneSelect ==
    /\ probe.stage = "scene"
    /\ selectedUnit = NoUnit
    /\ \E u \in SeqToSet(units) :
          /\ heap[u].owner = "player"
          /\ SetState(handleSelection(G, heap[u].pos))
    /\ UNCHANGED <<clicksLeft, turnsLeft, procs, probe>>

\* A call of attackUnit as handleSelection and executeAITurn make it: the
\* selected unit, or any unit if none is selected, attacks the unit on one
\* of its target hexes.  The dead stay on the heap for inspection.
AttackCall ==
    /\ probe.stage = "scene"
    /\ \E a \in SeqToSet(units) :
          /\ selectedUnit # NoUnit => a = selectedUnit
          /\ \E hex \in SeqToSet(getAttackableTargets(G, a)) :
                /\ SetState(attackUnit(G, a, getUnitAt(G, hex)))
                /\ probe' = [stage |-> "attacked", attacker |-> a,
                             defender |-> getUnitAt(G, hex), before |-> heap]
    /\ UNCHANGED <<clicksLeft, turnsLeft, procs>>

\* Key 'b' with a unit selected.
KeyCall ==
    /\ probe.stage = "scene"
    /\ selectedUnit # NoUnit
    /\ SetState(onKeyDown(G))
    /\ probe' = [stage |-> "keyed", unit |-> selectedUnit,
                 could |-> canSettle(G, selectedUnit), before |-> G]
    /\ UNCHANGED <<clicksLeft, turnsLeft, procs>>

\* A call of settleCity(unit) for any unit of the scene.
SettleCall ==
    /\ probe.stage = "scene"
    /\ \E u \in SeqToSet(units) :
          /\ SetState(settleCity(G, u))
          /\ probe' = [stage |-> "settled", unit |-> u,
                       could |-> canSettle(G, u), before |-> G]
    /\ UNCHANGED <<clicksLeft, turnsLeft, procs>>

\* A call of checkWinCondition().
WinQuery ==
    /\ probe.stage = "scene"
    /\ probe' = [stage |-> "asked", result |-> checkWinCondition(G), before |-> G]
    /\ UNCHANGED <<turn, units, heap, structures, board, visible, explored,
                   selectedUnit, validMoves, validTargets, cachedMoveCosts,
                   pendingInit, gen, clicksLeft, turnsLeft, procs>>

\* A call of getAttackableTargets(unit) for a unit of the scene.
TargetQuery ==
    /\ probe.stage = "scene"
    /\ \E u \in SeqToSet(units) :
          probe' = [stage |-> "targets", unit |-> u,
                    targets |-> getAttackableTargets(G, u)]
    /\ UNCHANGED <<turn, units, heap, structures, board, visible, explored,
                   selectedUnit, validMoves, validTargets, cachedMoveCosts,
                   pendingInit, gen, clicksLeft, turnsLeft, procs>>

\* A call of updateVisibility(): in a scene, after an attack (a death
\* leaves the flags of the dead unit's sight behind), or right after
\* another call.  The flags of a game in progress are those the call at
\* the end of SceneGame left, so a call in an untouched scene is the second
\* of two calls in a row.
VisibilityCall ==
    /\ probe.stage \in {"scene", "attacked", "seen"}
    /\ probe.stage = "scene" => selectedUnit = NoUnit
    /\ probe.stage = "seen" => probe.calls = 1
    /\ SetState(updateVisibility(G))
    /\ probe' = [stage |-> "seen",
                 calls |-> IF probe.stage = "attacked" \/ gen = 0 THEN 1 ELSE 2,
                 before |-> G]
    /\ UNCHANGED <<clicksLeft, turnsLeft, procs>>

QueryInit ==
    /\ clicksLeft = 0 /\ turnsLeft = 0 /\ procs = <<>>
    /\ (LookupInit \/ SceneInit)

QueryNext ==
    \/ LookupSearch
    \/ Lookup
    \/ SceneSelect
    \/ AttackCall
    \/ KeyCall
    \/ SettleCall
    \/ WinQuery
    \/ TargetQuery

QuerySpec == QueryInit /\ [][QueryNext]_vars

\* The visibility engine in isolation: calls of updateVisibility in the
\* scenes, before and after an attack.
SightInit ==
    /\ clicksLeft = 0 /\ turnsLeft = 0 /\ procs = <<>>
    /\ SceneInit

SightNext == AttackCall \/ VisibilityCall

SightSpec == SightInit /\ [][SightNext]_vars

\* ------------------------------------------------------------------ claims

InCollection(u) == u \in SeqToSet(units)
Friendly(u) == heap[u].owner = "player"

\* C1: the phase changes only from friendly to hostile by an end-turn
\* trigger issued in the friendly phase, and only from hostile to friendly
\* when an AI sequence finishes.
C1_PhaseAlternates ==
    [][turn' # turn =>
          \/ (turn = "player" /\ turn' = "enemy" /\ turnsLeft' = turnsLeft - 1)
          \/ (turn = "enemy" /\ turn' = "player" /\ Len(procs') = Len(procs) - 1)]_vars

\* C2: under fairness of the pacing delays the hostile phase is always
\* followed by the friendly phase and every started AI sequence completes.
C2_AITurnCompletes ==
    /\ (turn = "enemy") ~> (turn = "player")
    /\ (procs # <<>>) ~> (procs = <<>>)

\* A sequence is suspended in the delay before its attack after a move.
C2_Witness ==
    /\ turn = "enemy"
    /\ \E i \in 1..Len(procs) : procs[i].pc = "delay300"

\* C3: in the state in which the phase returns from hostile to friendly
\* every friendly unit of the collection has its full move allowance and
\* has not acted.
C3_FriendlyResetOnReturn ==
    [][(turn = "enemy" /\ turn' = "player") =>
          \A u \in SeqToSet(units') :
              heap'[u].owner = "player" =>
                  /\ heap'[u].movementRemaining = heap'[u].moveRange
                  /\ ~heap'[u].hasActed]_vars

\* The phase has returned to the friendly side of the first game, and a
\* friendly unit that left its starting hex before has its full allowance.
C3_Witness ==
    /\ gen = 1 /\ turn = "player" /\ procs = <<>> /\ turnsLeft < MaxTurns
    /\ clicksLeft = MaxClicks - 2
    /\ \E u \in SeqToSet(units) :
          /\ Friendly(u)
          /\ heap[u].pos \notin {<<0, 0>>, <<1, 0>>, <<1, 1>>}
          /\ heap[u].movementRemaining = heap[u].moveRange

\* C4: while an AI sequence is in flight, a step that is not a step of a
\* sequence leaves units, structures, tiles, phase and cost cache unchanged.
C4_SingleWriter ==
    [][(procs # <<>> /\ procs' = procs) =>
          UNCHANGED <<turn, units, heap, structures, board, visible, explored,
                      cachedMoveCosts>>]_vars

\* C5: every unit of the collection has 0 <= movementRemaining <= moveRange.
C5_MovementInRange ==
    \A u \in SeqToSet(units) :
        /\ 0 <= heap[u].movementRemaining
        /\ heap[u].movementRemaining <= heap[u].moveRange

\* The hexes the search that filled the cache returned: all it reached but
\* its start.
CachedResults(cache) ==
    IF cache.present THEN {h \in DOMAIN cache.costs : cache.costs[h] > 0} ELSE {}

\* C6: a move to a hex of the result of the immediately preceding search
\* (the search of the same AI step, or the one that filled the cache before
\* a click) relocates the unit and takes exactly the cost that search cached.
\* A click moves the selected unit only, and only to a hex of validMoves.
C6_MoveDeductsCachedCost ==
    [][\A u \in (DOMAIN heap) \cap (DOMAIN heap') :
          heap'[u].pos # heap[u].pos =>
              IF procs' # procs
              THEN LET q == ReachableOf(G, u)
                   IN  /\ heap'[u].pos \in SeqToSet(q.results)
                       /\ heap'[u].movementRemaining =
                              heap[u].movementRemaining - q.reached[heap'[u].pos]
              ELSE /\ u = selectedUnit
                   /\ heap'[u].pos \in SeqToSet(validMoves)
                   /\ heap'[u].pos \in CachedResults(cachedMoveCosts) =>
                          heap'[u].movementRemaining =
                              heap[u].movementRemaining
                                  - cachedMoveCosts.costs[heap'[u].pos]]_vars

\* A unit has entered the forest tile for its whole allowance of 2.
C6_Witness ==
    \E u \in SeqToSet(units) :
        /\ heap[u].pos = <<1, 1>>
        /\ TileAt(board, <<1, 1>>) = "forest"
        /\ heap[u].movementRemaining = heap[u].moveRange - 2

\* C7: after a step that changes the selection or the phase no cache is
\* present, or the cache is the one of the search just run for the newly
\* selected unit.
C7_CacheInvalidated ==
    [][(selectedUnit' # selectedUnit \/ turn' # turn) =>
          \/ ~cachedMoveCosts'.present
          \/ /\ selectedUnit' # NoUnit
             /\ heap'[selectedUnit'].movementRemaining > 0
             /\ cachedMoveCosts' = CacheOf(ReachableOf(G', selectedUnit').reached)]_vars

\* --- reference shortest paths for the harness

SetMin(S) == CHOOSE x \in S : \A y \in S : x <= y

Adjacent == [h \in PathGrid |-> {k \in PathGrid : getDistance(h, k) = 1}]

\* A hex a path may enter: in bounds, unoccupied, of finite cost and of the
\* unit's domain (water for a naval unit, land for a land unit).
RefEnterable(brd, occupied, isNaval, h) ==
    /\ h \in PathGrid
    /\ h \notin occupied
    /\ TerrainMovementCost(brd[h]) # Infinity
    /\ (brd[h] = "ocean") <=> isNaval

\* One round of relaxation: d[h] becomes the least cost of a path to h with
\* one more step than the paths d accounts for.
RefStep(brd, occupied, isNaval, d) ==
    [h \in PathGrid |->
        IF RefEnterable(brd, occupied, isNaval, h)
        THEN LET nearest == SetMin({d[k] : k \in Adjacent[h]})
                 entered == nearest + TerrainMovementCost(brd[h])
             IN  IF nearest # Infinity /\ entered < d[h] THEN entered ELSE d[h]
        ELSE d[h]]

RECURSIVE RefRounds(_, _, _, _, _)
RefRounds(brd, occupied, isNaval, d, n) ==
    IF n = 0 THEN d
    ELSE RefRounds(brd, occupied, isNaval, RefStep(brd, occupied, isNaval, d), n - 1)

\* Least path cost from the start over paths of at most movementRemaining
\* steps; every step costs at least 1, so a path within the allowance is
\* among them.
RefCosts(pr) ==
    RefRounds(HarnessBoard(pr.special), HarnessOccupied(pr.special, pr.start),
              pr.isNaval,
              [h \in PathGrid |-> IF h = pr.start THEN 0 ELSE Infinity],
              pr.movementRemaining)

\* C8: the hexes getReachableHexes returns are exactly the hexes other than
\* the unit's own whose least path cost is within movementRemaining, and
\* the cost cached for each of them is that least cost.
C8_AgreesWithShortestPaths ==
    probe.stage = "searched" =>
        LET ref == RefCosts(probe)
            within == {h \in PathGrid \ {probe.start} :
                          ref[h] <= probe.movementRemaining}
        IN  /\ SeqToSet(probe.results) = within
            /\ cachedMoveCosts.present
            /\ \A h \in within :
                  /\ h \in DOMAIN cachedMoveCosts.costs
                  /\ cachedMoveCosts.costs[h] = ref[h]
                  /\ getMovementCost(cachedMoveCosts, h) = ref[h]

\* A search in which the cost of a hex first reached over forest was
\* improved: the hex is twice in the list.
C8_Witness ==
    /\ probe.stage = "searched"
    /\ \E h \in DOMAIN probe.special : probe.special[h] = "forest"
    /\ Len(probe.results) > Cardinality(SeqToSet(probe.results))

\* Every tile costs 1 and is land, the unit is a land unit.
UniformCost(pr) ==
    /\ ~pr.isNaval
    /\ \A h \in DOMAIN pr.special : pr.special[h] = "unit"

WithinDistance(pr) ==
    {h \in PathGrid : /\ 1 <= getDistance(h, pr.start)
                      /\ getDistance(h, pr.start) <= pr.movementRemaining
                      /\ h \notin HarnessOccupied(pr.special, pr.start)}

Unobstructed(pr) ==
    \A h \in DOMAIN pr.special : getDistance(h, pr.start) >= pr.movementRemaining

\* The board holds every hex within distance movementRemaining.
Interior(pr) ==
    \A dc \in (-pr.movementRemaining)..pr.movementRemaining :
        \A dr \in (-pr.movementRemaining)..pr.movementRemaining :
            <<pr.start[1] + dc, pr.start[2] + dr>> \in PathGrid

C10_FirstNearest ==
    probe.stage = "picked" =>
        LET l == probe.list
            d(i) == getDistance(l[i], probe.target)
        IN  /\ (probe.best = NoHex) <=> (Len(l) = 0)
            /\ Len(l) > 0 =>
                  \E i \in 1..Len(l) :
                      /\ probe.best = l[i]
                      /\ \A j \in 1..Len(l) : d(j) >= d(i)
                      /\ \A j \in 1..(i - 1) : d(j) > d(i)

\* Two different hexes equally near follow a farther one; the earlier of
\* the two is returned.
C10_Witness ==
    /\ probe.stage = "picked" /\ Len(probe.list) = 3
    /\ probe.list[2] # probe.list[3]
    /\ getDistance(probe.list[2], probe.target) = getDistance(probe.list[3], probe.target)
    /\ getDistance(probe.list[2], probe.target) < getDistance(probe.list[1], probe.target)
    /\ probe.best = probe.list[2]

\* C11: getMovementCost returns 1 when no cache is present and when the
\* cache holds no entry for the hex; the lookup returns a number for every
\* hex, on the grid or off it.
C11_LookupFallsBackToOne ==
    probe.stage = "looked" =>
        /\ probe.cost \in Nat
        /\ (~cachedMoveCosts.present \/ probe.hex \notin DOMAIN cachedMoveCosts.costs)
              => probe.cost = 1

\* A search has filled the cache, and the hex looked up is not in it.
C11_WitnessNoEntry ==
    /\ probe.stage = "looked"
    /\ cachedMoveCosts.present
    /\ probe.hex \notin DOMAIN cachedMoveCosts.costs
    /\ probe.cost = 1

\* No search has run when the cost is looked up.
C11_Witness ==
    /\ probe.stage = "looked"
    /\ ~cachedMoveCosts.present
    /\ probe.cost = 1

\* C12: every unit of the collection has health above zero; a defender an
\* attack brings to zero or below is not in the collection after the attack.
C12_UnitsAlive ==
    \A u \in SeqToSet(units) : heap[u].hp > 0

\* An attack has killed a unit of the game in progress: two of its three
\* units are left, and no settlement took the third.
C12_Witness ==
    /\ gen = 1 /\ board = PlainsBoard /\ structures = <<>>
    /\ Len(units) = 2
    /\ C12_UnitsAlive

\* C13: an attack lowers the defender's health by exactly the attacker's
\* damage and never raises it, marks the attacker as having acted, and
\* leaves the attacker's health, both units' positions and
\* movementRemaining, and every other unit as they were.
C13_AttackEffect ==
    probe.stage = "attacked" =>
        LET a == probe.attacker
            d == probe.defender
            b == probe.before
        IN  /\ DOMAIN heap = DOMAIN b
            /\ a # d
            /\ heap[d].hp = b[d].hp - b[a].damage
            /\ heap[d].hp <= b[d].hp
            /\ heap[a].hasActed
            /\ heap[a].hp = b[a].hp
            /\ heap[a].pos = b[a].pos /\ heap[d].pos = b[d].pos
            /\ heap[a].movementRemaining = b[a].movementRemaining
            /\ heap[d].movementRemaining = b[d].movementRemaining
            /\ \A u \in DOMAIN b \ {a, d} : heap[u] = b[u]

\* A warrior has hit a warrior of 4 health in the presence of a third unit:
\* the defender is at zero and the attacker has moves left.
C13_Witness ==
    /\ probe.stage = "attacked"
    /\ heap[probe.defender].hp = 0
    /\ heap[probe.attacker].movementRemaining > 0
    /\ Cardinality(DOMAIN heap) = 3

\* A step in which an attack took place: a unit lost health, or left the
\* collection of its game without a settlement being founded.
AttackStep ==
    \E u \in DOMAIN heap :
        \/ u \in DOMAIN heap' /\ heap'[u].hp < heap[u].hp
        \/ /\ u \in SeqToSet(units) /\ u \notin SeqToSet(units')
           /\ gen' = gen /\ structures' = structures

\* C14: after a step in which a unit of either side attacked, whether or
\* not the defender died, no unit is selected and validMoves and
\* validTargets are empty.
C14_AttackClearsSelection ==
    [][AttackStep =>
          /\ selectedUnit' = NoUnit
          /\ validMoves' = <<>>
          /\ validTargets' = <<>>]_vars

\* The friendly warrior of the game in progress has attacked and killed
\* its neighbour by a click, while it still had moves; nothing is selected.
C14_Witness ==
    /\ gen = 1 /\ board = PlainsBoard /\ turn = "player" /\ procs = <<>>
    /\ turnsLeft = MaxTurns
    /\ Len(units) = 2
    /\ \E u \in SeqToSet(units) :
          Friendly(u) /\ heap[u].hasActed /\ heap[u].movementRemaining > 0
    /\ selectedUnit = NoUnit /\ validMoves = <<>> /\ validTargets = <<>>

\* The tiles a friendly unit or a friendly structure sees.
SeenByFriends ==
    {h \in DOMAIN board :
        \/ \E u \in SeqToSet(units) :
              Friendly(u) /\ getDistance(heap[u].pos, h) <= heap[u].sightRange
        \/ \E i \in 1..Len(structures) :
              /\ structures[i].owner = "player"
              /\ getDistance(structures[i].pos, h) <= STRUCTURE_SIGHT_RANGE}

\* C15: when the selected (friendly) unit founds a settlement, exactly one
\* structure is added, at the unit's hex and of the unit's owner; that unit
\* and no other leaves the collection; nothing is selected and validMoves
\* and validTargets are empty; visibility is recomputed, so every tile
\* within the structure's sight radius is visible.
C15_SettlementFounded ==
    (probe.stage = "keyed" /\ probe.could) =>
        LET b == probe.before
            u == probe.unit
            city == structures[Len(structures)]
        IN  /\ Len(structures) = Len(b.structures) + 1
            /\ SubSeq(structures, 1, Len(b.structures)) = b.structures
            /\ city.pos = b.heap[u].pos
            /\ city.owner = b.heap[u].owner
            /\ Len(units) = Len(b.units) - 1
            /\ SeqToSet(units) = SeqToSet(b.units) \ {u}
            /\ \A v \in SeqToSet(units) : heap[v] = b.heap[v]
            /\ selectedUnit = NoUnit /\ validMoves = <<>> /\ validTargets = <<>>
            /\ \A h \in DOMAIN board :
                  getDistance(city.pos, h) <= STRUCTURE_SIGHT_RANGE => h \in visible
            /\ visible = SeenByFriends
            /\ explored = b.explored \cup visible

\* The settler was the only friendly unit; its city sees tiles the settler
\* did not.
C15_Witness ==
    /\ probe.stage = "keyed" /\ probe.could
    /\ Len(structures) = 1
    /\ \A u \in SeqToSet(units) : ~Friendly(u)
    /\ visible # probe.before.visible
    /\ probe.before.visible \subseteq visible

\* No two structures stand on the same hex.
NoSharedHex ==
    \A i, j \in 1..Len(structures) :
        structures[i].pos = structures[j].pos => i = j

\* C16: canSettle holds exactly for a settler that has not acted and
\* stands on an existing tile that is neither ocean nor mountain and holds
\* no structure; settleCity founds a settlement exactly then and otherwise
\* leaves the whole state as it was; no two structures share a hex.
C16_SettlesOnlyWhereAllowed ==
    /\ NoSharedHex
    /\ probe.stage = "settled" =>
          LET b == probe.before
              unit == b.heap[probe.unit]
              allowed == /\ unit.type = "Settler"
                         /\ ~unit.hasActed
                         /\ unit.pos \in DOMAIN b.board
                         /\ b.board[unit.pos] \notin {"ocean", "mountain"}
                         /\ \A i \in 1..Len(b.structures) :
                                b.structures[i].pos # unit.pos
          IN  /\ probe.could <=> allowed
              /\ (Len(structures) > Len(b.structures)) <=> allowed
              /\ ~allowed => G = b

\* settleCity was called for a settler standing on the city's hex, and
\* nothing changed.
C16_Witness ==
    /\ probe.stage = "settled" /\ ~probe.could
    /\ heap[probe.unit].type = "Settler"
    /\ board[heap[probe.unit].pos] = "plains"
    /\ Len(structures) = 1
    /\ structures[1].pos = heap[probe.unit].pos
    /\ G = probe.before

\* The units of the collection on the friendly side, and on the others.
FriendsIn(g) == {u \in SeqToSet(g.units) : g.heap[u].owner = "player"}
FoesIn(g) == {u \in SeqToSet(g.units) : g.heap[u].owner # "player"}

\* C17: checkWinCondition reports a defeat exactly when the friendly side
\* has no unit in the collection, a victory exactly when the other sides
\* have none, nothing otherwise, and changes no state.
C17_WinLossQuery ==
    probe.stage = "asked" =>
        /\ (probe.result = "defeat") <=> (FriendsIn(probe.before) = {})
        /\ (probe.result = "victory") <=> (FoesIn(probe.before) = {})
        /\ (probe.result = "none") <=>
              (FriendsIn(probe.before) # {} /\ FoesIn(probe.before) # {})
        /\ G = probe.before

\* What the query does: victory is tested first, so a defeat is reported
\* exactly when the friendly side has no unit and another side has one.
C17_VictoryFirst ==
    probe.stage = "asked" =>
        /\ (probe.result = "victory") <=> (FoesIn(probe.before) = {})
        /\ (probe.result = "defeat") <=>
              (FriendsIn(probe.before) = {} /\ FoesIn(probe.before) # {})
        /\ (probe.result = "none") <=>
              (FriendsIn(probe.before) # {} /\ FoesIn(probe.before) # {})
        /\ G = probe.before

\* The hexes of the board that hold a unit of another owner than u's.
HostileHexes(u) ==
    {h \in Grid : \E v \in SeqToSet(units) :
                    heap[v].pos = h /\ heap[v].owner # heap[u].owner}

\* C18: getAttackableTargets returns nothing for range 0; for range 1 the
\* neighbours that hold a unit of another owner; for range 2 and above the
\* hexes of the board other than the unit's own within distance range that
\* hold a unit of another owner; each once, whatever the terrain.
C18_TargetsWithinRange ==
    probe.stage = "targets" =>
        LET u == probe.unit
            pos == heap[u].pos
            range == heap[u].range
            found == SeqToSet(probe.targets)
        IN  /\ Len(probe.targets) = Cardinality(found)
            /\ range = 0 => probe.targets = <<>>
            /\ range = 1 =>
                  found = SeqToSet(getNeighbors(pos[1], pos[2])) \cap HostileHexes(u)
            /\ range >= 1 =>
                  found = {h \in HostileHexes(u) :
                              h # pos /\ getDistance(pos, h) <= range}

\* A slinger in the corner finds the hostile unit on the ocean tile two
\* hexes away and not the one three hexes away inside its bounding square.
C18_Witness ==
    /\ probe.stage = "targets"
    /\ heap[probe.unit].range = 2
    /\ heap[probe.unit].pos = <<0, 0>>
    /\ board[<<2, 0>>] = "ocean"
    /\ probe.targets = << <<2, 0>> >>
    /\ <<2, 2>> \in HostileHexes(probe.unit)

\* C19: every visible tile is explored.
C19_VisibleIsExplored == visible \subseteq explored

\* A friendly unit has moved and left tiles behind: they are explored and
\* no longer visible, the tiles it sees now are both.
C19_Witness ==
    /\ visible # {}
    /\ visible \subseteq explored
    /\ explored \ visible # {}
    /\ \E u \in SeqToSet(units) :
          Friendly(u) /\ heap[u].movementRemaining < heap[u].moveRange

\* C20: within one game a tile that is explored stays explored, whatever
\* the step: a move, an attack, a death, a settlement, a recomputation of
\* visibility or a change of phase.
C20_ExploredIsSticky ==
    [][gen' = gen => explored \subseteq explored']_vars

\* In the first game a tile in the far column was seen from the start, is
\* out of sight now and is still explored.
C20_Witness ==
    /\ gen = 1
    /\ \E h \in explored \ visible : h[1] = BOARD_COLS - 1
    /\ visible = SeenByFriends

\* C21: right after updateVisibility a tile is visible exactly if it is a
\* tile of the board within sightRange of a friendly unit of the collection
\* or within STRUCTURE_SIGHT_RANGE (3) of a friendly structure, and explored
\* exactly if it was explored before or is visible now; hostile units and
\* structures and the terrain play no part.
C21_VisibleExactlyInSight ==
    probe.stage = "seen" =>
        /\ visible =
              {h \in DOMAIN board :
                  /\ isValidHex(h)
                  /\ \/ \E u \in SeqToSet(units) :
                           /\ heap[u].owner = "player"
                           /\ getDistance(heap[u].pos, h) <= heap[u].sightRange
                     \/ \E i \in 1..Len(structures) :
                           /\ structures[i].owner = "player"
                           /\ getDistance(structures[i].pos, h) <= 3}
        /\ explored = probe.before.explored \cup visible
        /\ STRUCTURE_SIGHT_RANGE = 3

\* The call follows the death of a friendly unit: tiles only it saw are no
\* longer visible and still explored, and a hostile unit stands on a tile
\* that is not visible.
C21_Witness ==
    /\ probe.stage = "seen" /\ probe.calls = 1
    /\ visible # probe.before.visible
    /\ visible # {}
    /\ explored \ visible # {}
    /\ \E u \in SeqToSet(units) : ~Friendly(u) /\ heap[u].pos \notin visible

\* C23: a second call of updateVisibility right after the first, the units
\* and structures where they were, leaves the visible and the explored
\* flag of every tile as the first call left them.
C23_VisibilityIdempotent ==
    (probe.stage = "seen" /\ probe.calls = 2) =>
        /\ visible = probe.before.visible
        /\ explored = probe.before.explored

\* The second of two calls, where the first one had changed the flags and
\* part of the board is out of sight.
C23_Witness ==
    /\ probe.stage = "seen" /\ probe.calls = 2
    /\ visible # {}
    /\ visible # DOMAIN board
    /\ explored # visible

\* C22: visibility is never stale: in every state - after a friendly move,
\* after the death of a friendly unit in combat, after a settlement is
\* founded - a tile is visible only if a friendly unit of the collection or
\* a friendly structure has it within its sight radius.
C22_VisibilityNeverStale == visible \subseteq SeenByFriends

\* The step is a step of AI sequence i: it went on to another await, or it
\* returned and left the sequences in flight.
Stepped(i) ==
    \/ /\ Len(procs') = Len(procs)
       /\ procs'[i] # procs[i]
       /\ \A j \in 1..Len(procs) : j # i => procs'[j] = procs[j]
    \/ /\ Len(procs') = Len(procs) - 1
       /\ procs' = RemoveAt(procs, i)

FriendsOf(g) == {v \in SeqToSet(g.units) : g.heap[v].owner = "player"}
ReachOf(g, u) == ReachableOf(g, u).results

\* The k-th reachable hex is the nearest to the nearest friendly unit, and
\* the earliest discovered of the nearest.
IsBestMove(g, u, k) ==
    \E n \in FriendsOf(g) :
        /\ \A m \in FriendsOf(g) :
              getDistance(g.heap[u].pos, g.heap[n].pos)
                  <= getDistance(g.heap[u].pos, g.heap[m].pos)
        /\ \A j \in 1..Len(g.units) :
              (g.units[j] \in FriendsOf(g)
                 /\ getDistance(g.heap[u].pos, g.heap[g.units[j]].pos)
                      = getDistance(g.heap[u].pos, g.heap[n].pos))
              => \E j0 \in 1..j : g.units[j0] = n
        /\ \A j \in 1..Len(ReachOf(g, u)) :
              LET dk == getDistance(ReachOf(g, u)[k], g.heap[n].pos)
                  dj == getDistance(ReachOf(g, u)[j], g.heap[n].pos)
              IN  dk <= dj /\ (dj = dk => k <= j)

\* The step of sequence i neither hurts nor removes a unit other than d.
OnlyHurts(d) ==
    \A v \in (DOMAIN heap) \ {d} :
        /\ v \in DOMAIN heap' => heap'[v].hp = heap[v].hp
        /\ v \in SeqToSet(units) => v \in SeqToSet(units')

\* The activation of the unit of sequence i is over.
ActivationEnds(i) ==
    \/ Len(procs') < Len(procs)
    \/ procs'[i].idx > procs[i].idx

\* The move step of sequence i: after delay(600) the target query of its
\* unit finds nothing.
MoveOrStay(i) ==
    LET p == procs[i]
        u == UnitOf(p)
    IN  (Stepped(i) /\ p.pc = "delay600" /\ ~heap[u].hasActed
           /\ Len(getAttackableTargets(G, u)) = 0) =>
          /\ OnlyHurts(NoUnit)
          /\ IF FriendsOf(G) = {} \/ Len(ReachOf(G, u)) = 0
             THEN /\ ActivationEnds(i)
                  /\ u \in DOMAIN heap' =>
                        /\ heap'[u].pos = heap[u].pos
                        /\ ~heap'[u].hasActed
             ELSE /\ u \in DOMAIN heap' =>
                        /\ \E k \in 1..Len(ReachOf(G, u)) :
                              /\ IsBestMove(G, u, k)
                              /\ heap'[u].pos = ReachOf(G, u)[k]
                        /\ ~heap'[u].hasActed
                        /\ IF Len(getAttackableTargets(G', u)) > 0
                           THEN /\ Len(procs') = Len(procs)
                                /\ procs'[i].idx = p.idx
                                /\ procs'[i].pc = "delay300"
                                /\ procs'[i].targetHex
                                     = getAttackableTargets(G', u)[1]
                           ELSE ActivationEnds(i)

\* The attack step of sequence i after delay(300): the unit attacks the
\* first target of its query.
DelayedAttack(i) ==
    LET p == procs[i]
        u == UnitOf(p)
        d == getUnitAt(G, p.targetHex)
    IN  (Stepped(i) /\ p.pc = "delay300") =>
          /\ ActivationEnds(i)
          /\ OnlyHurts(d)
          /\ d # NoUnit
          /\ Len(getAttackableTargets(G, u)) > 0
          /\ p.targetHex = getAttackableTargets(G, u)[1]
          /\ d \in DOMAIN heap' => heap'[d].hp = heap[d].hp - heap[u].damage
          /\ heap[d].hp <= heap[u].damage => d \notin SeqToSet(units')
          /\ u \in DOMAIN heap' =>
                /\ heap'[u].hasActed
                /\ heap'[u].pos = heap[u].pos

\* C25: a hostile unit whose target query finds nothing when the delay of
\* its activation has expired moves to the reachable hex nearest to the
\* nearest friendly unit (the first found of equally near ones) and hurts
\* nobody in that step; it goes on to an attack exactly if it has not acted
\* and a target is attackable from the new hex, and that attack is on the
\* first target of the query.  Without a friendly unit or a reachable hex
\* it stays and its activation ends.
C25_MovesTowardsNearestThenAttacks ==
    [][\A i \in 1..Len(procs) : MoveOrStay(i) /\ DelayedAttack(i)]_vars

\* The move of C25 by itself, up to the await before the attack.
C25_MovesTowardsNearest ==
    [][\A i \in 1..Len(procs) : MoveOrStay(i)]_vars

\* The attack of C25 in a game that has not been initialised again.
C25_AttacksUnlessReinitialised ==
    [][\A i \in 1..Len(procs) : gen <= 1 => DelayedAttack(i)]_vars

\* A hostile unit has moved and then attacked in a game that has not been
\* initialised again.
C25_AttackedAfterMove ==
    /\ gen <= 1
    /\ \E u \in SeqToSet(units) :
          /\ ~Friendly(u)
          /\ heap[u].hasActed
          /\ heap[u].movementRemaining < heap[u].moveRange

\* ------------------------------------------ hex-math.ts in isolation

\* The cells the functions of hex-math.ts are called on: rows of both
\* parities, on the board and off it.
MaxCoord == 4
HexCells == {<<c, r>> : c \in (-2)..MaxCoord, r \in (-2)..MaxCoord}

\* The rounding error of a floating point result is far below 1 / ErrDen.
ErrDen == 1000
FloatErrors == {Rat(e, ErrDen) : e \in {-1, 0, 1}}

HexInit ==
    /\ clicksLeft = 0 /\ turnsLeft = 0 /\ procs = <<>>
    /\ StateIs(EmptyGame)
    /\ \E a \in HexCells, b \in HexCells : probe = [stage |-> "cells", a |-> a, b |-> b]

HexUnchanged ==
    UNCHANGED <<turn, units, heap, structures, board, visible, explored,
                selectedUnit, validMoves, validTargets, cachedMoveCosts,
                pendingInit, gen, clicksLeft, turnsLeft, procs>>

\* getDistance(a, b) and getDistance(b, a)
Distance ==
    /\ probe.stage = "cells"
    /\ probe' = [stage |-> "distance", a |-> probe.a, b |-> probe.b,
                 ab |-> getDistance(probe.a, probe.b),
                 ba |-> getDistance(probe.b, probe.a)]
    /\ HexUnchanged

\* getNeighbors(col, row)
Neighbors ==
    /\ probe.stage = "cells"
    /\ probe' = [stage |-> "neighbors", a |-> probe.a,
                 list |-> getNeighbors(probe.a[1], probe.a[2])]
    /\ HexUnchanged

\* pixelToHex(hexToPixel(col, row))
RoundTrip ==
    /\ probe.stage = "cells"
    /\ \E eq \in FloatErrors, er \in FloatErrors, es \in FloatErrors :
          probe' = [stage |-> "roundtrip", a |-> probe.a,
                    pixel |-> hexToPixel(probe.a[1], probe.a[2]),
                    err |-> [q |-> eq, r |-> er, s |-> es],
                    back |-> pixelToHex(hexToPixel(probe.a[1], probe.a[2]),
                                        [q |-> eq, r |-> er, s |-> es])]
    /\ HexUnchanged

HexNext == Distance \/ Neighbors \/ RoundTrip

HexSpec == HexInit /\ [][HexNext]_vars

\* C26: getDistance is symmetric, a non-negative integer (the sum of the
\* three cube differences it halves is even), and 0 exactly for a = b.
C26_DistanceIsMetricLike ==
    probe.stage = "distance" =>
        LET ac == oddrToCube(probe.a[1], probe.a[2])
            bc == oddrToCube(probe.b[1], probe.b[2])
        IN  /\ probe.ab = probe.ba
            /\ (Abs(ac.q - bc.q) + Abs(ac.r - bc.r) + Abs(ac.s - bc.s)) % 2 = 0
            /\ probe.ab \in Nat
            /\ (probe.ab = 0) <=> (probe.a = probe.b)

\* A distance of two was measured from an odd row below the board to an
\* even row.
C26_Witness ==
    /\ probe.stage = "distance"
    /\ probe.a[2] = -1 /\ probe.b[2] = 0
    /\ probe.a[1] > probe.b[1]
    /\ probe.ab = 2

\* C27: getNeighbors returns six different coordinates, each at distance 1
\* of the cell, on even and on odd rows.
C27_SixNeighborsAtDistanceOne ==
    probe.stage = "neighbors" =>
        /\ Len(probe.list) = 6
        /\ Cardinality({probe.list[i] : i \in 1..Len(probe.list)}) = 6
        /\ \A i \in 1..Len(probe.list) :
              /\ getDistance(probe.a, probe.list[i]) = 1
              /\ Abs(probe.list[i][1] - probe.a[1]) <= 1
              /\ Abs(probe.list[i][2] - probe.a[2]) <= 1

\* The neighbours of a cell of an odd row: the second is up and right.
C27_Witness ==
    /\ probe.stage = "neighbors"
    /\ Parity(probe.a[2]) = 1
    /\ probe.list[2] = <<probe.a[1] + 1, probe.a[2] - 1>>

\* C28: the centre pixel of a cell of the board converts back to the cell,
\* whatever the rounding errors of the floating point results.
C28_PixelRoundTrip ==
    (probe.stage = "roundtrip" /\ probe.a[1] >= 0 /\ probe.a[2] >= 0) =>
        probe.back = probe.a

\* The centre of a cell of an odd row, half a hex to the right, came back
\* as the cell although q was computed too small and r too large.
C28_Witness ==
    /\ probe.stage = "roundtrip"
    /\ probe.a = <<3, 1>>
    /\ probe.pixel.x = Num(2 * HEX_SIZE, 7 * HEX_SIZE, 2)
    /\ probe.pixel.y = Rat(5 * HEX_SIZE, 2)
    /\ probe.err.q = Rat(-1, ErrDen) /\ probe.err.r = Rat(1, ErrDen)
    /\ probe.back = <<3, 1>>

\* C29: a friendly unit that has attacked (hasActed is set until the phase
\* comes back to the player) is not moved again in the same friendly phase.
C29_AttackEndsUnitsTurn ==
    [][\A u \in SeqToSet(units) :
          (/\ Friendly(u) /\ heap[u].hasActed
           /\ turn = "player" /\ turn' = "player" /\ gen' = gen
           /\ u \in SeqToSet(units'))
          => heap'[u].pos = heap[u].pos]_vars

\* Unit d of the collection is hit in the step: it loses hit points, or it
\* leaves the collection of the same game and no settlement is founded.
Hurt(d) ==
    /\ gen' = gen
    /\ \/ d \in DOMAIN heap' /\ heap'[d].hp < heap[d].hp
       \/ d \notin SeqToSet(units') /\ structures' = structures

\* Unit u makes the step with its action unspent and spends it.
SpendsAction(u) ==
    /\ u # NoUnit
    /\ ~heap[u].hasActed
    /\ u \in DOMAIN heap' => heap'[u].hasActed

\* C30: whenever a unit is hit, the attacker (the selected unit in a step
\* of the player, the unit of the resuming sequence in a step of the AI)
\* had not acted since the last reset of its hasActed flag, and has acted
\* now: no unit attacks twice between two resets.
C30_OneAttackPerTurn ==
    [][\A d \in SeqToSet(units) :
          Hurt(d) =>
              IF procs' = procs
              THEN SpendsAction(selectedUnit)
              ELSE \E i \in 1..Len(procs) :
                      Stepped(i) /\ SpendsAction(UnitOf(procs[i]))]_vars

\* The cache is the one of a search that started on the hex of unit u.
CacheStartsAt(u) ==
    /\ cachedMoveCosts.present
    /\ heap[u].pos \in DOMAIN cachedMoveCosts.costs
    /\ cachedMoveCosts.costs[heap[u].pos] = 0

\* C31: every executed move takes a cost that a search for the moved unit
\* from the hex it stands on has cached: in a step of the AI the search of
\* that step, in a click the cache as it is, which starts at the unit's hex
\* and is the cache a search for the unit gives; the fallback cost of a hex
\* without entry is not used.
C31_NoStaleCost ==
    [][\A u \in (DOMAIN heap) \cap (DOMAIN heap') :
          heap'[u].pos # heap[u].pos =>
              IF procs' # procs
              THEN LET q == ReachableOf(G, u)
                   IN  /\ heap'[u].pos \in DOMAIN q.reached
                       /\ heap'[u].movementRemaining =
                              heap[u].movementRemaining - q.reached[heap'[u].pos]
              ELSE /\ CacheStartsAt(u)
                   /\ cachedMoveCosts = CacheOf(ReachableOf(G, u).reached)
                   /\ heap'[u].pos \in DOMAIN cachedMoveCosts.costs
                   /\ heap'[u].movementRemaining =
                          heap[u].movementRemaining
                              - cachedMoveCosts.costs[heap'[u].pos]]_vars

\* C32: while no unit is selected, validMoves and validTargets are empty.
C32_NoSelectionNoHighlights ==
    selectedUnit = NoUnit => (validMoves = <<>> /\ validTargets = <<>>)

\* --- a game in which the hostile sides fight each other

\* A hostile warrior with a weakened warrior of the other hostile side and
\* a weakened friendly warrior next to it; the hostile neighbour comes
\* first in the order of the target query and later in the unit collection.
Feud ==
    << [type |-> "Warrior", owner |-> "player", pos |-> <<1, 1>>, hp |-> 4],
       [type |-> "Warrior", owner |-> "enemy1", pos |-> <<2, 1>>, hp |-> 12],
       [type |-> "Warrior", owner |-> "enemy2", pos |-> <<3, 1>>, hp |-> 4] >>

FeudInit ==
    /\ StateIs(MidGame(Feud))
    /\ clicksLeft = MaxClicks
    /\ turnsLeft = MaxTurns
    /\ procs = <<>>
    /\ probe = NoProbe

FeudSpec == FeudInit /\ [][Next]_vars

\* C33: in a step of an AI sequence, a unit of its enemies array that the
\* loop has not activated yet and that is dead (hp <= 0) after the step is
\* left as it is - position, movementRemaining and hasActed - and the
\* sequence does not wait for it: the loop passes it by.
C33_DeadUnitsAreSkipped ==
    [][\A i \in 1..Len(procs) :
          Stepped(i) =>
              \A k \in (procs[i].idx + 1)..Len(procs[i].enemies) :
                  LET e == procs[i].enemies[k]
                  IN  (e \in DOMAIN heap' /\ heap'[e].hp <= 0) =>
                          /\ heap'[e].pos = heap[e].pos
                          /\ heap'[e].movementRemaining = heap[e].movementRemaining
                          /\ heap'[e].hasActed = heap[e].hasActed
                          /\ Len(procs') = Len(procs) => procs'[i].idx # k]_vars

\* The phase is back with the player after a hostile phase in which the
\* first hostile warrior killed the second: the survivor has acted, the
\* friendly warrior is untouched, and the dead warrior is gone.
C33_Witness ==
    /\ turn = "player" /\ procs = <<>> /\ gen = 1
    /\ Len(units) = 2
    /\ \E u \in SeqToSet(units) : Friendly(u) /\ heap[u].hp = 4
    /\ \E u \in SeqToSet(units) :
          /\ heap[u].owner = "enemy1" /\ heap[u].hasActed
          /\ heap[u].pos = <<2, 1>>
    /\ turnsLeft = MaxTurns - 1

\* C34: a step that takes a unit out of the collection of the game in
\* progress evaluates the win/loss query: if the game is won or lost after
\* the step, the step has scheduled the re-initialisation.
C34_WinCheckAfterRemoval ==
    [][(/\ gen' = gen
        /\ \E u \in SeqToSet(units) : u \notin SeqToSet(units')
        /\ checkWinCondition(G') # "none")
       => (pendingInit' > pendingInit \/ pendingInit = MaxPending)]_vars

\* C35: no two units of the collection stand on the same hex.
C35_UnitsOnDistinctHexes ==
    \A i, j \in 1..Len(units) :
        heap[units[i]].pos = heap[units[j]].pos => i = j

\* A friendly unit and a hostile unit have both moved, and stand next to
\* each other.
C35_Witness ==
    \E u, v \in SeqToSet(units) :
        /\ Friendly(u) /\ ~Friendly(v)
        /\ heap[u].movementRemaining < heap[u].moveRange
        /\ heap[v].movementRemaining < heap[v].moveRange
        /\ getDistance(heap[u].pos, heap[v].pos) = 1

\* C36: the list a search returns holds no hex twice and not the hex the
\* search started on.
C36_ResultsWithoutRepeats ==
    probe.stage = "searched" =>
        /\ \A i, j \in 1..Len(probe.results) :
              probe.results[i] = probe.results[j] => i = j
        /\ \A i \in 1..Len(probe.results) : probe.results[i] # probe.start

\* The start hex by itself is never in the list.
C36_StartNotReported ==
    probe.stage = "searched" =>
        \A i \in 1..Len(probe.results) : probe.results[i] # probe.start

\* C37: the selected unit, if there is one, is a friendly unit of the
\* collection, and there is none while the turn is the hostile side's.
C37_SelectionIsFriendlyAndPresent ==
    selectedUnit # NoUnit =>
        /\ selectedUnit \in SeqToSet(units)
        /\ heap[selectedUnit].owner = "player"
        /\ turn = "player"

\* A friendly unit that has been hit is selected while an AI sequence is
\* in flight.
C37_Witness ==
    /\ selectedUnit # NoUnit
    /\ Len(procs) > 0
    /\ heap[selectedUnit].hp < UnitConfig(heap[selectedUnit].type).hp
    /\ gen = 2

\* C38: a unit that is hit in a step of an AI sequence is a friendly unit.
C38_AIAttacksFriendlyOnly ==
    [][\A d \in SeqToSet(units) :
          (Hurt(d) /\ procs' # procs) => heap[d].owner = "player"]_vars

\* C39: at most one executeAITurn is suspended in a pacing delay.
C39_OneAISequence == Len(procs) <= 1

====
